---- MODULE Spec2Model ----
(***************************************************************************)
(* Model of the two scripts of the repository:                             *)
(*   Software/geras/bayesian_network.py  (Gaussian Naive Bayes, 5-fold     *)
(*       cross validation, accuracy / sensitivity / specificity report)    *)
(*   Software/texW2V/lstm.py             (feed-forward network trained     *)
(*       with early stopping)                                              *)
(* The library calls the scripts make (KFold.split, GaussianNB.fit,        *)
(* confusion_matrix, DataFrame.drop, EarlyStopping) are modelled by what   *)
(* the library does at the call site.                                      *)
(***************************************************************************)
EXTENDS Integers, Sequences, FiniteSets, TLC

VARIABLES
    \* evaluate_sen_spec (bayesian_network.py 117-133)
    y_true, y_pred, ss_pc, counts, specificity, sensitivity, printed,
    \* evaluate_accuracy (bayesian_network.py 78-114)
    ev_sets, ev_pc, score, ev_printed, sen_spec,
    \* do_kfold_validation (bayesian_network.py 51-73)
    x, y, kf_pc, indices, folds, train_index, val_index,
    x_train, x_val, y_train, y_val, model, fit_log, eval_args,
    \* split_dataframe (bayesian_network.py 30-48)
    df, df_test, sp_pc, split_x, split_y, split_x_test, split_y_test,
    \* model.fit with EarlyStopping (lstm.py 19-20)
    es_pc, epoch, wait, best, stopped_epoch, stop_training, history

ssVars == <<y_true, y_pred, ss_pc, counts, specificity, sensitivity, printed>>

evVars == <<ev_sets, ev_pc, score, ev_printed, sen_spec>>

kfVars == <<x, y, kf_pc, indices, folds, train_index, val_index,
            x_train, x_val, y_train, y_val, model, fit_log, eval_args>>

spVars == <<df, df_test, sp_pc, split_x, split_y, split_x_test, split_y_test>>

esVars == <<es_pc, epoch, wait, best, stopped_epoch, stop_training, history>>

vars == <<ssVars, evVars, kfVars, spVars, esVars>>

(***************************************************************************)
(* Bounds of the model.                                                    *)
(***************************************************************************)
MaxLen == 8

MaxSetLen == 2

MaxRows == 6

MaxExtraCols == 2

MaxTableRows == 2

MaxLoss == 25

MaxStep == 1

(***************************************************************************)
(* Labels: 'Y' is mapped to 1 and everything else to 0 (lines 38, 44).     *)
(***************************************************************************)
Labels == {0, 1}

LabelVectors(lo, hi) == UNION {[1..k -> Labels] : k \in lo..hi}

(***************************************************************************)
(* Floating point values of the report.  A finite value is kept as the     *)
(* exact fraction num/den; 0/0 of two numpy integers is nan.               *)
(***************************************************************************)
NaN == [kind |-> "nan", num |-> 0, den |-> 0]

Inf == [kind |-> "inf", num |-> 0, den |-> 0]

Float(a, b) == [kind |-> "float", num |-> a, den |-> b]

NoFloat == [kind |-> "none", num |-> 0, den |-> 0]

\* numpy true division of two integer scalars: a warning and nan or inf on a
\* zero denominator, never an exception (lines 130, 131)
TrueDivide(a, b) ==
    IF b = 0 THEN (IF a = 0 THEN NaN ELSE Inf) ELSE Float(a, b)

\* "{1:6.2f}%".format(v * 100): the percentage in hundredths, rounded to the
\* nearest; nan prints as "nan" (lines 132, 133)
FormatPercent(v) ==
    IF v.kind = "float"
    THEN [text |-> "number", hundredths |-> (20000 * v.num + v.den) \div (2 * v.den)]
    ELSE [text |-> v.kind, hundredths |-> 0]

(***************************************************************************)
(* sklearn.metrics.confusion_matrix(y_true, y_pred): the labels are the    *)
(* sorted distinct values that occur in y_true or y_pred; entry [i][j]     *)
(* counts the rows whose true label is the i-th and whose predicted label  *)
(* is the j-th of them.  With one distinct value the matrix is 1 x 1.      *)
(***************************************************************************)
UniqueLabels(a, b) == {a[i] : i \in DOMAIN a} \cup {b[i] : i \in DOMAIN b}

\* position (from 1) of label v among the sorted labels
LabelToInd(labels, v) == Cardinality({w \in labels : w < v}) + 1

RECURSIVE CountPairs(_, _, _, _)
CountPairs(rowLabels, colLabels, cm, i) ==
    IF i > Len(rowLabels) THEN cm
    ELSE LET labels == UniqueLabels(rowLabels, colLabels)
             r == LabelToInd(labels, rowLabels[i])
             c == LabelToInd(labels, colLabels[i])
         IN CountPairs(rowLabels, colLabels,
                       [cm EXCEPT ![r][c] = @ + 1], i + 1)

ZeroMatrix(k) == [r \in 1..k |-> [c \in 1..k |-> 0]]

ConfusionMatrixTransposed(yt, yp) ==
    CountPairs(yp, yt, ZeroMatrix(Cardinality(UniqueLabels(yt, yp))), 1)

ConfusionMatrix(yt, yp) ==
    CountPairs(yt, yp, ZeroMatrix(Cardinality(UniqueLabels(yt, yp))), 1)

\* numpy ravel(): the rows of the matrix one after the other
RECURSIVE Ravel(_)
Ravel(cm) ==
    IF Len(cm) = 0 THEN <<>> ELSE Head(cm) \o Ravel(Tail(cm))

NoCounts == [tn |-> 0, fp |-> 0, fn |-> 0, tp |-> 0]

(***************************************************************************)
(* evaluate_sen_spec(y_true, y_pred, set).  The unpacking of line 128      *)
(* needs exactly four values and raises ValueError otherwise.              *)
(***************************************************************************)
SenSpecOutcome(yt, yp) ==
    LET flat == Ravel(ConfusionMatrix(yt, yp)) IN
    IF Len(flat) # 4
    THEN [pc |-> "ValueError", counts |-> NoCounts,
          specificity |-> NoFloat, sensitivity |-> NoFloat,
          printed |-> <<>>]
    ELSE LET tn == flat[1]
             fp == flat[2]
             fn == flat[3]
             tp == flat[4]
             spec == TrueDivide(tn, tn + fp)
             sens == TrueDivide(tp, tp + fn)
         IN [pc |-> "returned",
             counts |-> [tn |-> tn, fp |-> fp, fn |-> fn, tp |-> tp],
             specificity |-> spec, sensitivity |-> sens,
             printed |-> <<FormatPercent(spec), FormatPercent(sens)>>]

IdleSenSpec ==
    /\ y_true = <<>>
    /\ y_pred = <<>>
    /\ ss_pc = "idle"
    /\ counts = NoCounts
    /\ specificity = NoFloat
    /\ sensitivity = NoFloat
    /\ printed = <<>>

IdleEval ==
    /\ ev_sets = <<>>
    /\ ev_pc = "idle"
    /\ score = <<>>
    /\ ev_printed = <<>>
    /\ sen_spec = <<>>

IdleKFold ==
    /\ x = <<>>
    /\ y = <<>>
    /\ kf_pc = <<"idle", 0>>
    /\ indices = <<>>
    /\ folds = <<>>
    /\ train_index = <<>>
    /\ val_index = <<>>
    /\ x_train = <<>>
    /\ x_val = <<>>
    /\ y_train = <<>>
    /\ y_val = <<>>
    /\ model = <<>>
    /\ fit_log = <<>>
    /\ eval_args = <<>>

IdleSplit ==
    /\ df = <<>>
    /\ df_test = <<>>
    /\ sp_pc = "idle"
    /\ split_x = <<>>
    /\ split_y = <<>>
    /\ split_x_test = <<>>
    /\ split_y_test = <<>>

IdleFit ==
    /\ es_pc = "idle"
    /\ epoch = 0
    /\ wait = 0
    /\ best = 0
    /\ stopped_epoch = 0
    /\ stop_training = FALSE
    /\ history = <<>>

InitSenSpec ==
    /\ \E yt \in LabelVectors(1, MaxLen) :
         /\ y_true = yt
         /\ y_pred \in [1..Len(yt) -> Labels]
    /\ ss_pc = "call"
    /\ counts = NoCounts
    /\ specificity = NoFloat
    /\ sensitivity = NoFloat
    /\ printed = <<>>

evaluate_sen_spec ==
    /\ ss_pc = "call"
    /\ LET out == SenSpecOutcome(y_true, y_pred) IN
         /\ ss_pc' = out.pc
         /\ counts' = out.counts
         /\ specificity' = out.specificity
         /\ sensitivity' = out.sensitivity
         /\ printed' = out.printed
    /\ UNCHANGED <<y_true, y_pred>>
    /\ UNCHANGED <<evVars, kfVars, spVars, esVars>>

InitSpecSenSpec ==
    InitSenSpec /\ IdleEval /\ IdleKFold /\ IdleSplit /\ IdleFit

SpecSenSpec == InitSpecSenSpec /\ [][evaluate_sen_spec]_vars

(***************************************************************************)
(* evaluate_accuracy(model, x_train, x_val, x_test, y_train, y_val,        *)
(* y_test).  The model is only read here: for each set, pred is what       *)
(* model.predict returns on the features of the set, the same vector at    *)
(* every call.  The sets are numbered in the order of the code: 1 train,   *)
(* 2 validation, 3 test.                                                   *)
(***************************************************************************)
\* sklearn accuracy_score behind model.score(x, y): the fraction of rows whose
\* predicted label equals the true label (lines 90, 94, 98)
RECURSIVE CountMatches(_, _, _)
CountMatches(yt, yp, i) ==
    IF i > Len(yt) THEN 0
    ELSE (IF yt[i] = yp[i] THEN 1 ELSE 0) + CountMatches(yt, yp, i + 1)

ModelScore(yt, yp) == Float(CountMatches(yt, yp, 1), Len(yt))

\* "{1:6.3f}%".format(score * 100): the percentage in thousandths
FormatScore(v) ==
    [text |-> "number", thousandths |-> (200000 * v.num + v.den) \div (2 * v.den)]

NotRun == [pc |-> "not run", counts |-> NoCounts,
           specificity |-> NoFloat, sensitivity |-> NoFloat, printed |-> <<>>]

InitEval ==
    /\ ev_sets \in [1..3 -> {[y |-> yt, pred |-> yp] :
                        yt \in LabelVectors(1, MaxSetLen),
                        yp \in LabelVectors(1, MaxSetLen)}]
    /\ \A s \in 1..3 : Len(ev_sets[s].y) = Len(ev_sets[s].pred)
    /\ ev_pc = <<"score", 1>>
    /\ score = [s \in 1..3 |-> NoFloat]
    /\ ev_printed = <<>>
    /\ sen_spec = [s \in 1..3 |-> NotRun]

\* lines 90-91, 94-95, 98-99
ScoreSet ==
    /\ ev_pc[1] = "score"
    /\ LET s == ev_pc[2]
           v == ModelScore(ev_sets[s].y, ev_sets[s].pred)
       IN /\ score' = [score EXCEPT ![s] = v]
          /\ ev_printed' = Append(ev_printed, FormatScore(v))
          /\ ev_pc' = IF s < 3 THEN <<"score", s + 1>> ELSE <<"sen_spec", 1>>
    /\ UNCHANGED <<ev_sets, sen_spec>>
    /\ UNCHANGED <<ssVars, kfVars, spVars, esVars>>

\* lines 103-104, 108-109, 113-114: predict, then evaluate_sen_spec; an
\* exception raised there ends evaluate_accuracy
SenSpecSet ==
    /\ ev_pc[1] = "sen_spec"
    /\ LET s == ev_pc[2]
           out == SenSpecOutcome(ev_sets[s].y, ev_sets[s].pred)
       IN /\ sen_spec' = [sen_spec EXCEPT ![s] = out]
          /\ ev_pc' = IF out.pc = "ValueError" THEN <<"ValueError", s>>
                      ELSE IF s < 3 THEN <<"sen_spec", s + 1>>
                      ELSE <<"done", 3>>
    /\ UNCHANGED <<ev_sets, score, ev_printed>>
    /\ UNCHANGED <<ssVars, kfVars, spVars, esVars>>

evaluate_accuracy == ScoreSet \/ SenSpecSet

InitSpecEval ==
    InitEval /\ IdleSenSpec /\ IdleKFold /\ IdleSplit /\ IdleFit

SpecEval == InitSpecEval /\ [][evaluate_accuracy]_vars

(***************************************************************************)
(* do_kfold_validation(x, y, x_test, y_test).                              *)
(*                                                                         *)
(* A table or a column is a sequence of rows [index, value]: pandas keeps  *)
(* the index label of a row through .loc.  read_csv numbers the rows       *)
(* 0 .. n-1.  The table has one feature column here.                       *)
(***************************************************************************)
n_splits == 5

Frame(values) ==
    [i \in 1..Len(values) |-> [index |-> i - 1, value |-> values[i]]]

\* frame.loc[labels]: the rows with these index labels, in the order given
Loc(frame, labels) ==
    [k \in 1..Len(labels) |->
        CHOOSE r \in {frame[i] : i \in DOMAIN frame} : r.index = labels[k]]

IndexSet(frame) == {frame[i].index : i \in DOMAIN frame}

\* the elements of a set of integers in ascending order
RECURSIVE Ascending(_)
Ascending(S) ==
    IF S = {} THEN <<>>
    ELSE LET m == CHOOSE a \in S : \A b \in S : a <= b
         IN <<m>> \o Ascending(S \ {m})

(***************************************************************************)
(* KFold(n_splits=5, shuffle=True).split(x): fold_sizes is n // 5 for      *)
(* every fold and one more for the first n % 5 folds; fold f tests the     *)
(* slice of the shuffled indices that starts where fold f-1 stopped; the   *)
(* two index arrays yielded are arange(n) under the test mask and under    *)
(* its negation, so both are ascending.                                    *)
(***************************************************************************)
FoldSizesNoRemainder(n) == [f \in 1..n_splits |-> n \div n_splits]

FoldSizes(n) ==
    [f \in 1..n_splits |->
        (n \div n_splits) + (IF f <= n % n_splits THEN 1 ELSE 0)]

RECURSIVE FoldStart(_, _)
FoldStart(n, f) ==
    IF f = 1 THEN 0 ELSE FoldStart(n, f - 1) + FoldSizes(n)[f - 1]

TestIndices(shuffled, f) ==
    LET n == Len(shuffled)
        start == FoldStart(n, f)
        stop == start + FoldSizes(n)[f]
    IN {shuffled[i] : i \in (start + 1)..stop}

KFoldSplit(shuffled, f) ==
    LET n == Len(shuffled)
        test == TestIndices(shuffled, f)
    IN [train_index |-> Ascending((0..(n - 1)) \ test),
        val_index |-> Ascending(test)]

\* the orders in which the seeded shuffle may leave arange(n)
Shuffles(n) ==
    {[i \in 1..n |-> p[i] - 1] : p \in Permutations(1..n)}

(***************************************************************************)
(* GaussianNB.  fit() starts from nothing (sklearn calls _partial_fit with *)
(* _refit=True): per class of y, in ascending order, the number of rows,   *)
(* the mean and the variance of the feature over the rows of the class.    *)
(* A mean or variance is kept as the exact fraction <<num, den>>; epsilon_ *)
(* is var_smoothing times the variance of the whole column, kept here as   *)
(* that variance.                                                          *)
(***************************************************************************)
RECURSIVE SumPow(_, _, _, _, _)
SumPow(xf, yf, c, pow, i) ==
    IF i > Len(xf) THEN 0
    ELSE (IF yf[i].value \in c
          THEN (IF pow = 0 THEN 1
                ELSE IF pow = 1 THEN xf[i].value
                ELSE xf[i].value * xf[i].value)
          ELSE 0) + SumPow(xf, yf, c, pow, i + 1)

GaussianNB == [classes_ |-> <<>>, class_count_ |-> <<>>,
               theta_ |-> <<>>, var_ |-> <<>>, epsilon_ |-> <<0, 1>>]

Epsilon(xf, yf) ==
    LET m == SumPow(xf, yf, Labels, 0, 1)
        sm == SumPow(xf, yf, Labels, 1, 1)
        sq == SumPow(xf, yf, Labels, 2, 1)
    IN <<m * sq - sm * sm, m * m>>

GaussianNBFit(xf, yf) ==
    LET classes == Ascending({yf[i].value : i \in DOMAIN yf})
        cnt == [k \in DOMAIN classes |-> SumPow(xf, yf, {classes[k]}, 0, 1)]
        sm == [k \in DOMAIN classes |-> SumPow(xf, yf, {classes[k]}, 1, 1)]
        sq == [k \in DOMAIN classes |-> SumPow(xf, yf, {classes[k]}, 2, 1)]
    IN [classes_ |-> classes,
        class_count_ |-> cnt,
        theta_ |-> [k \in DOMAIN classes |-> <<sm[k], cnt[k]>>],
        var_ |-> [k \in DOMAIN classes |->
                     <<cnt[k] * sq[k] - sm[k] * sm[k], cnt[k] * cnt[k]>>],
        epsilon_ |-> Epsilon(xf, yf)]

\* the statistics of a class in a fitted model, 0 when the class is absent
OldStat(m, c, what) ==
    LET ks == {k \in DOMAIN m.classes_ : m.classes_[k] = c} IN
    IF ks = {} THEN 0
    ELSE LET k == CHOOSE j \in ks : TRUE
             cnt == m.class_count_[k]
             sm == m.theta_[k][1]
         IN IF what = 0 THEN cnt
            ELSE IF what = 1 THEN sm
            ELSE (m.var_[k][1] + sm * sm) \div cnt

\* a fit that keeps what the earlier fits counted (partial_fit)
ModelPartialFit(m, xf, yf) ==
    LET new == GaussianNBFit(xf, yf)
        all == {m.classes_[k] : k \in DOMAIN m.classes_}
                 \cup {new.classes_[k] : k \in DOMAIN new.classes_}
        classes == Ascending(all)
        cnt == [k \in DOMAIN classes |->
                  OldStat(m, classes[k], 0) + OldStat(new, classes[k], 0)]
        sm == [k \in DOMAIN classes |->
                  OldStat(m, classes[k], 1) + OldStat(new, classes[k], 1)]
        sq == [k \in DOMAIN classes |->
                  OldStat(m, classes[k], 2) + OldStat(new, classes[k], 2)]
    IN [classes_ |-> classes,
        class_count_ |-> cnt,
        theta_ |-> [k \in DOMAIN classes |-> <<sm[k], cnt[k]>>],
        var_ |-> [k \in DOMAIN classes |->
                     <<cnt[k] * sq[k] - sm[k] * sm[k], cnt[k] * cnt[k]>>],
        epsilon_ |-> new.epsilon_]

\* model.fit(x_train, y_train), line 71: the earlier parameters are dropped
ModelFit(m, xf, yf) == GaussianNBFit(xf, yf)

\* the rows line 71 hands to fit
FitAllRows(xs, ys, xtr, ytr) == [x |-> xs, y |-> ys]

FitArguments(xs, ys, xtr, ytr) == [x |-> xtr, y |-> ytr]

(***************************************************************************)
(* The training table: n rows, the feature of row i is i + 1, the first    *)
(* k rows are labelled 1 (dementia) and the others 0.                      *)
(***************************************************************************)
InitKFold ==
    /\ \E n \in 1..MaxRows, k \in 0..MaxRows :
         /\ k <= n
         /\ x = Frame([i \in 1..n |-> i])
         /\ y = Frame([i \in 1..n |-> IF i <= k THEN 1 ELSE 0])
    /\ kf_pc = <<"split", 0>>
    /\ indices = <<>>
    /\ folds = <<>>
    /\ train_index = <<>>
    /\ val_index = <<>>
    /\ x_train = <<>>
    /\ x_val = <<>>
    /\ y_train = <<>>
    /\ y_val = <<>>
    /\ model = GaussianNB
    /\ fit_log = <<>>
    /\ eval_args = <<>>

\* line 67, entering the loop: split() refuses fewer rows than folds,
\* otherwise the indices are shuffled once
StartSplit ==
    /\ kf_pc = <<"split", 0>>
    /\ IF Len(x) < n_splits
       THEN /\ kf_pc' = <<"ValueError", 0>>
            /\ indices' = indices
       ELSE /\ indices' \in Shuffles(Len(x))
            /\ kf_pc' = <<"fold", 1>>
    /\ UNCHANGED <<x, y, folds, train_index, val_index, x_train, x_val,
                   y_train, y_val, model, fit_log, eval_args>>
    /\ UNCHANGED <<ssVars, evVars, spVars, esVars>>

\* lines 67-71, one iteration of the loop
FoldIteration ==
    /\ kf_pc[1] = "fold"
    /\ LET f == kf_pc[2]
           pair == KFoldSplit(indices, f)
           xtr == Loc(x, pair.train_index)
           ytr == Loc(y, pair.train_index)
           args == FitArguments(x, y, xtr, ytr)
       IN /\ train_index' = pair.train_index
          /\ val_index' = pair.val_index
          /\ folds' = Append(folds, pair)
          /\ x_train' = xtr
          /\ x_val' = Loc(x, pair.val_index)
          /\ y_train' = ytr
          /\ y_val' = Loc(y, pair.val_index)
          /\ model' = ModelFit(model, args.x, args.y)
          /\ fit_log' = Append(fit_log, IndexSet(args.x))
          /\ kf_pc' = IF f < n_splits THEN <<"fold", f + 1>>
                      ELSE <<"call evaluate_accuracy", 0>>
    /\ UNCHANGED <<x, y, indices, eval_args>>
    /\ UNCHANGED <<ssVars, evVars, spVars, esVars>>

\* line 73: the loop variables of the last iteration are the arguments
CallEvaluateAccuracy ==
    /\ kf_pc[1] = "call evaluate_accuracy"
    /\ eval_args' = [model |-> model, x_train |-> x_train, x_val |-> x_val,
                     y_train |-> y_train, y_val |-> y_val]
    /\ kf_pc' = <<"evaluate_accuracy", 1>>
    /\ UNCHANGED <<x, y, indices, folds, train_index, val_index, x_train,
                   x_val, y_train, y_val, model, fit_log>>
    /\ UNCHANGED <<ssVars, evVars, spVars, esVars>>

\* lines 90-113: model.score on train, validation, test and model.predict on
\* train, validation, test; each call reads the model
ModelRead ==
    /\ kf_pc[1] = "evaluate_accuracy"
    /\ kf_pc' = IF kf_pc[2] < 6 THEN <<"evaluate_accuracy", kf_pc[2] + 1>>
                ELSE <<"done", 0>>
    /\ UNCHANGED <<x, y, indices, folds, train_index, val_index, x_train,
                   x_val, y_train, y_val, model, fit_log, eval_args>>
    /\ UNCHANGED <<ssVars, evVars, spVars, esVars>>

do_kfold_validation ==
    StartSplit \/ FoldIteration \/ CallEvaluateAccuracy \/ ModelRead

InitSpecKFold ==
    InitKFold /\ IdleSenSpec /\ IdleEval /\ IdleSplit /\ IdleFit

SpecKFold == InitSpecKFold /\ [][do_kfold_validation]_vars

(***************************************************************************)
(* split_dataframe(df, df_test).  A table is a sequence of columns         *)
(* [name, values], the names distinct (read_csv renames a repeated         *)
(* header).  The columns of a table are some of the columns of the file    *)
(* layout, in the order of the layout.                                     *)
(***************************************************************************)
LabelColumn == "dementia"

DroppedColumnsWithoutLabel == <<"pauses", "retracing_reform">>

\* the columns argument of the two drop calls (lines 42, 46)
DroppedColumns == <<"dementia", "pauses", "retracing_reform">>

FeatureNames == <<"hesitations", "age", "fillers", "repetitions">>

Layout ==
    SubSeq(FeatureNames, 1, 1) \o <<"dementia", "pauses", "retracing_reform">>
        \o SubSeq(FeatureNames, 2, MaxExtraCols)

\* the cell of column c (by its place in the layout) at row r
Cell(c, r) ==
    IF Layout[c] = LabelColumn
    THEN (IF r % 2 = 1 THEN "Y" ELSE "N")
    ELSE IF Layout[c] = "pauses" /\ r = 2 THEN "" ELSE "v"

RECURSIVE Select(_, _, _)
Select(cols, keep, i) ==
    IF i > Len(cols) THEN <<>>
    ELSE (IF i \in keep THEN <<cols[i]>> ELSE <<>>) \o Select(cols, keep, i + 1)

Table(keep, nrows) ==
    Select([c \in 1..Len(Layout) |->
               [name |-> Layout[c], values |-> [r \in 1..nrows |-> Cell(c, r)]]],
           keep, 1)

Tables ==
    {Table(keep, nrows) : keep \in SUBSET (1..Len(Layout)),
                          nrows \in 0..MaxTableRows}

ColumnNames(t) == {t[i].name : i \in DOMAIN t}

\* df[name]: the column, KeyError when there is none
HasColumn(t, name) == name \in ColumnNames(t)

Column(t, name) == (CHOOSE c \in {t[i] : i \in DOMAIN t} : c.name = name).values

\* Series.apply(lambda x : 1 if x == 'Y' else 0) (lines 38, 44)
ToLabels(values) == [r \in DOMAIN values |-> IF values[r] = "Y" THEN 1 ELSE 0]

\* DataFrame.drop(columns=names): KeyError unless every name is a column;
\* the other columns are kept, in their order
CanDrop(t, names) == \A k \in DOMAIN names : HasColumn(t, names[k])

Drop(t, names) ==
    Select(t, {i \in DOMAIN t : \A k \in DOMAIN names : t[i].name # names[k]}, 1)

SplitOutcome(train, test) ==
    LET none == [pc |-> "KeyError", x |-> <<>>, y |-> <<>>,
                 x_test |-> <<>>, y_test |-> <<>>]
    IN IF ~HasColumn(train, LabelColumn) THEN none
       ELSE IF ~CanDrop(train, DroppedColumns) THEN none
       ELSE IF ~HasColumn(test, LabelColumn) THEN none
       ELSE IF ~CanDrop(test, DroppedColumns) THEN none
       ELSE [pc |-> "do_kfold_validation",
             x |-> Drop(train, DroppedColumns),
             y |-> ToLabels(Column(train, LabelColumn)),
             x_test |-> Drop(test, DroppedColumns),
             y_test |-> ToLabels(Column(test, LabelColumn))]

InitSplit ==
    /\ df \in Tables
    /\ df_test \in Tables
    /\ sp_pc = "split_dataframe"
    /\ split_x = <<>>
    /\ split_y = <<>>
    /\ split_x_test = <<>>
    /\ split_y_test = <<>>

split_dataframe ==
    /\ sp_pc = "split_dataframe"
    /\ LET out == SplitOutcome(df, df_test) IN
         /\ sp_pc' = out.pc
         /\ split_x' = out.x
         /\ split_y' = out.y
         /\ split_x_test' = out.x_test
         /\ split_y_test' = out.y_test
    /\ UNCHANGED <<df, df_test>>
    /\ UNCHANGED <<ssVars, evVars, kfVars, esVars>>

InitSpecSplit ==
    InitSplit /\ IdleSenSpec /\ IdleEval /\ IdleKFold /\ IdleFit

SpecSplit == InitSpecSplit /\ [][split_dataframe]_vars

(***************************************************************************)
(* lstm.py: model.fit(..., epochs=1000, callbacks=[es]) with               *)
(* es = EarlyStopping(monitor='val_loss', patience=40).  After every epoch *)
(* the History callback records the validation loss and EarlyStopping      *)
(* compares it with the best one so far; fit leaves its loop when          *)
(* stop_training is set.  A loss is one of the levels 0 .. MaxLoss, any of  *)
(* them in the first epoch and afterwards within MaxStep levels of the     *)
(* best one so far.  Of the recorded val_loss list the model keeps its     *)
(* length, its minimum and the place where that minimum first occurs.      *)
(***************************************************************************)
epochs == 1000

patience == 40

min_delta == 0

Infinity == [inf |-> TRUE, v |-> 0]

Finite(v) == [inf |-> FALSE, v |-> v]

\* numpy less(a, b) with b possibly infinite
MonitorOp(a, b) == b.inf \/ a < b.v

PatienceReachedStrict(w) == w > patience

PatienceReached(w) == w >= patience

EmptyHistory == [len |-> 0, min |-> Infinity, argmin |-> 0]

HistoryAppend(h, loss) ==
    IF MonitorOp(loss, h.min)
    THEN [len |-> h.len + 1, min |-> Finite(loss), argmin |-> h.len + 1]
    ELSE [h EXCEPT !.len = h.len + 1]

\* the validation losses an epoch may end with
Losses(b) ==
    IF b.inf THEN 0..MaxLoss
    ELSE {v \in 0..MaxLoss : v >= b.v - MaxStep /\ v <= b.v + MaxStep}

\* EarlyStopping.on_train_begin
InitFit ==
    /\ es_pc = "training"
    /\ epoch = 0
    /\ wait = 0
    /\ best = Infinity
    /\ stopped_epoch = 0
    /\ stop_training = FALSE
    /\ history = EmptyHistory

\* one epoch of model.fit and EarlyStopping.on_epoch_end(epoch, logs)
TrainEpoch ==
    /\ es_pc = "training"
    /\ epoch < epochs
    /\ \E val_loss \in Losses(best) :
         LET improved == MonitorOp(val_loss - min_delta, best)
             w == IF improved THEN 0 ELSE wait + 1
             stop == ~improved /\ PatienceReached(w)
         IN /\ history' = HistoryAppend(history, val_loss)
            /\ best' = IF improved THEN Finite(val_loss) ELSE best
            /\ wait' = w
            /\ stop_training' = stop
            /\ stopped_epoch' = IF stop THEN epoch ELSE stopped_epoch
            /\ epoch' = epoch + 1
            /\ es_pc' = IF stop \/ epoch + 1 = epochs THEN "done" ELSE "training"
    /\ UNCHANGED <<ssVars, evVars, kfVars, spVars>>

InitSpecFit ==
    InitFit /\ IdleSenSpec /\ IdleEval /\ IdleKFold /\ IdleSplit

SpecFit == InitSpecFit /\ [][TrainEpoch]_vars

FairSpecFit == SpecFit /\ WF_vars(TrainEpoch)

(***************************************************************************)
(* Properties of evaluate_sen_spec, checked under SpecSenSpec.             *)
(***************************************************************************)
Rows(a, b) == {i \in DOMAIN y_true : y_true[i] = a /\ y_pred[i] = b}

Occurs(label, v) == \E i \in DOMAIN v : v[i] = label

SenSpecRan == ss_pc # "call"

\* C3: for any pair of binary label vectors of n entries evaluate_sen_spec
\* obtains four counts tn, fp, fn, tp, each a non-negative integer, and
\* tn + fp + fn + tp = n.
C3_CountsSumToN ==
    SenSpecRan =>
        /\ ss_pc = "returned"
        /\ \A k \in {counts.tn, counts.fp, counts.fn, counts.tp} : k \in Nat
        /\ counts.tn + counts.fp + counts.fn + counts.tp = Len(y_true)

\* C4: on a set with only label 0 the zero denominator of the sensitivity is
\* reported, by an error that names it or by nan (the function returns and
\* prints nan, no number), and the function does not end in another
\* exception; likewise for the specificity on a set with only label 1.
C4_ZeroDenominatorReported ==
    /\ (SenSpecRan /\ ~Occurs(1, y_true)) =>
          \/ ss_pc = "ZeroDivisionError"
          \/ /\ ss_pc = "returned"
             /\ sensitivity = NaN
             /\ printed[2].text = "nan"
    /\ (SenSpecRan /\ ~Occurs(0, y_true)) =>
          \/ ss_pc = "ZeroDivisionError"
          \/ /\ ss_pc = "returned"
             /\ specificity = NaN
             /\ printed[1].text = "nan"

ScenarioLabels == <<1, 1, 1, 1, 0, 0, 0, 0>>

ScenarioPredictions == <<1, 1, 0, 1, 0, 0, 1, 0>>

\* C5: when both classes occur in y_true, evaluate_sen_spec returns with
\* tp, fn, tn, fp the numbers of rows with (actual, predicted) = (1,1),
\* (1,0), (0,0), (0,1), specificity = tn/(tn+fp) and sensitivity =
\* tp/(tp+fn); the labels [1,1,1,1,0,0,0,0] with the predictions
\* [1,1,0,1,0,0,1,0] give tp=3, fn=1, tn=3, fp=1 and 0.75 for both ratios.
C5_SenSpecValues ==
    (SenSpecRan /\ Occurs(0, y_true) /\ Occurs(1, y_true)) =>
        /\ ss_pc = "returned"
        /\ counts.tp = Cardinality(Rows(1, 1))
        /\ counts.fn = Cardinality(Rows(1, 0))
        /\ counts.tn = Cardinality(Rows(0, 0))
        /\ counts.fp = Cardinality(Rows(0, 1))
        /\ specificity.kind = "float"
        /\ specificity.num = Cardinality(Rows(0, 0))
        /\ specificity.den = Cardinality(Rows(0, 0)) + Cardinality(Rows(0, 1))
        /\ sensitivity.kind = "float"
        /\ sensitivity.num = Cardinality(Rows(1, 1))
        /\ sensitivity.den = Cardinality(Rows(1, 1)) + Cardinality(Rows(1, 0))
        /\ (y_true = ScenarioLabels /\ y_pred = ScenarioPredictions) =>
              /\ counts = [tn |-> 3, fp |-> 1, fn |-> 1, tp |-> 3]
              /\ 4 * sensitivity.num = 3 * sensitivity.den
              /\ 4 * specificity.num = 3 * specificity.den
              /\ printed = <<[text |-> "number", hundredths |-> 7500],
                             [text |-> "number", hundredths |-> 7500]>>

C5_Witness ==
    /\ ss_pc = "returned"
    /\ y_true = ScenarioLabels
    /\ y_pred = ScenarioPredictions
    /\ counts.tp = 3

\* with only label 0 in y_true and a 1 among the predictions the matrix is
\* 2 x 2 and the sensitivity is nan
C4_NanPrinted ==
    /\ ss_pc = "returned"
    /\ ~Occurs(1, y_true)
    /\ sensitivity = NaN

(***************************************************************************)
(* Properties of evaluate_accuracy, checked under SpecEval.                *)
(***************************************************************************)
EvalEnded == ev_pc[1] \in {"done", "ValueError"}

ScoreIsCountRatio(s) ==
    LET c == sen_spec[s].counts IN
    /\ score[s].kind = "float"
    /\ score[s].num * Len(ev_sets[s].y) = (c.tp + c.tn) * score[s].den

\* C6: for each of the three evaluated sets, the accuracy that
\* evaluate_accuracy reports equals (tp + tn) / n of the confusion counts
\* that evaluate_sen_spec derives for the same set.
C6_AccuracyEqualsCounts ==
    EvalEnded =>
        \A s \in 1..3 : sen_spec[s].pc = "returned" /\ ScoreIsCountRatio(s)

\* what holds of the code: the equality, for the sets whose counts were derived
C6_WhereCountsDerived ==
    \A s \in 1..3 : sen_spec[s].pc = "returned" => ScoreIsCountRatio(s)

(***************************************************************************)
(* Properties of do_kfold_validation, checked under SpecKFold.             *)
(***************************************************************************)
AllRows == IndexSet(x)

Elements(seq) == {seq[i] : i \in DOMAIN seq}

ValSet(f) == Elements(folds[f].val_index)

TrainSet(f) == Elements(folds[f].train_index)

LoopDone == kf_pc[1] \in {"call evaluate_accuracy", "evaluate_accuracy", "done"}

Evaluating == kf_pc[1] \in {"evaluate_accuracy", "done"}

LastTrain == folds[n_splits].train_index

LastVal == folds[n_splits].val_index

\* C1: for a table of n >= 5 rows the loop gets 5 (train_index, val_index)
\* pairs; the validation sets are pairwise disjoint and their union is all
\* rows; in every fold the training set is the complement of the validation
\* set; so every row is in exactly one validation fold and in the training
\* portion of exactly the 4 others.
C1_FoldsPartitionRows ==
    /\ Len(x) >= n_splits => kf_pc[1] # "ValueError"
    /\ \A f \in DOMAIN folds :
          /\ TrainSet(f) = AllRows \ ValSet(f)
          /\ ValSet(f) \subseteq AllRows
          /\ Cardinality(ValSet(f)) = Len(folds[f].val_index)
          /\ Cardinality(TrainSet(f)) = Len(folds[f].train_index)
          /\ \A g \in DOMAIN folds : f # g => ValSet(f) \cap ValSet(g) = {}
    /\ LoopDone =>
          /\ Len(folds) = n_splits
          /\ UNION {ValSet(f) : f \in DOMAIN folds} = AllRows
          /\ \A r \in AllRows :
                /\ Cardinality({f \in DOMAIN folds : r \in ValSet(f)}) = 1
                /\ Cardinality({f \in DOMAIN folds : r \in TrainSet(f)}) = 4

C1_Witness ==
    /\ LoopDone
    /\ Len(x) = 6
    /\ Len(folds) = n_splits
    /\ Cardinality(ValSet(1)) = 2
    /\ Cardinality(ValSet(5)) = 1

\* C2: the classifier is fit once per fold, 5 times; each fit overwrites the
\* parameters, so the model handed to evaluate_accuracy is the result of
\* fitting on the training subset of the 5th fold alone; after the loop the
\* model is read and never fit again.
C2_LastFitWins ==
    /\ [](Len(fit_log) = Len(folds))
    /\ [](LoopDone =>
            /\ Len(fit_log) = n_splits
            /\ model = GaussianNBFit(Loc(x, LastTrain), Loc(y, LastTrain)))
    /\ [](Evaluating => eval_args.model = model)
    /\ [][LoopDone => (model' = model /\ fit_log' = fit_log)]_vars

C2_Witness ==
    /\ kf_pc[1] = "done"
    /\ Len(fit_log) = n_splits
    /\ model # GaussianNBFit(x, y)
    /\ model # GaussianNBFit(Loc(x, folds[1].train_index),
                             Loc(y, folds[1].train_index))

\* C10: evaluate_accuracy gets the training portion and the held-out portion
\* of the 5th fold: they are disjoint, together they are all rows of the
\* table, and no row of the validation set was among the rows of the last
\* fit, whose model is the one evaluated.
C10_EvaluatedSetsAreLastFold ==
    Evaluating =>
        LET tr == IndexSet(eval_args.x_train)
            va == IndexSet(eval_args.x_val)
        IN /\ eval_args.x_train = Loc(x, LastTrain)
           /\ eval_args.y_train = Loc(y, LastTrain)
           /\ eval_args.x_val = Loc(x, LastVal)
           /\ eval_args.y_val = Loc(y, LastVal)
           /\ tr \cap va = {}
           /\ tr \cup va = AllRows
           /\ va # {}
           /\ va \cap fit_log[Len(fit_log)] = {}
           /\ eval_args.model = model
           /\ model = GaussianNBFit(eval_args.x_train, eval_args.y_train)

C10_Witness ==
    /\ kf_pc[1] = "done"
    /\ Len(x) = 6
    /\ IndexSet(eval_args.x_val) = {0}
    /\ fit_log[n_splits] = 1..5

(***************************************************************************)
(* Properties of split_dataframe, checked under SpecSplit.                 *)
(***************************************************************************)
RequiredColumns == {"dementia", "pauses", "retracing_reform"}

\* the table `out` is the table `in` without the three columns: 3 columns
\* fewer, the others as they were and in their order, as many rows
WithoutRequired(in, out) ==
    /\ Len(out) = Len(in) - 3
    /\ ColumnNames(out) = ColumnNames(in) \ RequiredColumns
    /\ \A i \in DOMAIN out : \E j \in DOMAIN in : out[i] = in[j]
    /\ \A i, j \in DOMAIN out :
          i < j => \E a, b \in DOMAIN in : a < b /\ in[a] = out[i] /\ in[b] = out[j]
    /\ \A i \in DOMAIN out : \A j \in DOMAIN in :
          Len(out[i].values) = Len(in[j].values)

\* C8: on tables that contain 'dementia', 'pauses' and 'retracing_reform',
\* split_dataframe yields feature tables with exactly 3 columns fewer: the
\* three are removed, every other column is kept unchanged, the number of
\* rows is unchanged; the same for the test table.
C8_DropsThreeColumns ==
    (/\ sp_pc # "split_dataframe"
     /\ RequiredColumns \subseteq ColumnNames(df)
     /\ RequiredColumns \subseteq ColumnNames(df_test)) =>
        /\ sp_pc = "do_kfold_validation"
        /\ WithoutRequired(df, split_x)
        /\ WithoutRequired(df_test, split_x_test)
        /\ Len(split_y) = Len(Column(df, LabelColumn))
        /\ Len(split_y_test) = Len(Column(df_test, LabelColumn))

C8_Witness ==
    /\ sp_pc = "do_kfold_validation"
    /\ Len(df) = 5
    /\ Len(split_x) = 2
    /\ Len(df_test) = 4
    /\ Len(split_x_test) = 1
    /\ Len(split_x[1].values) = 2

(***************************************************************************)
(* Properties of the training loop of lstm.py, checked under FairSpecFit.  *)
(***************************************************************************)
\* the number of epochs since the validation loss last improved on all
\* earlier epochs
SinceImprovement == history.len - history.argmin

\* C9: training terminates; it runs at most 1000 epochs; it stops before
\* that exactly when the validation loss has not improved for 40 epochs in
\* a row, and never while fewer than 40 such epochs have passed.
C9_TrainingTerminates ==
    /\ [](epoch <= epochs /\ history.len = epoch)
    /\ [](es_pc = "training" => (epoch < epochs /\ SinceImprovement < patience))
    /\ [](es_pc = "done" =>
            \/ (stop_training /\ SinceImprovement = patience
                  /\ stopped_epoch = epoch - 1)
            \/ (~stop_training /\ epoch = epochs /\ SinceImprovement < patience))
    /\ [][epoch' = epoch + 1]_vars
    /\ <>(es_pc = "done")

C9_Witness ==
    /\ es_pc = "done"
    /\ stop_training
    /\ epoch > 2 * patience
    /\ epoch < epochs
    /\ SinceImprovement = patience

C9_RunsAllEpochs ==
    /\ es_pc = "done"
    /\ ~stop_training
    /\ epoch = epochs

====
